---- MODULE Spec2Model ----
(***************************************************************************)
(* A model of the Discord CRM bot service (discord-bot/index.js):          *)
(* BotManager (registry of DiscordCRMBot sessions, initializeFromDatabase, *)
(* addBot, removeBot, sendMessage), the accounts change feed, and the      *)
(* message recording paths of DiscordCRMBot (messageCreate handler,        *)
(* fetchExistingDMs, sendMessage / recordSentMessage) against the          *)
(* `messages` table of supabase-schema.sql.                                *)
(***************************************************************************)
EXTENDS Integers, Sequences, FiniteSets, TLC

\* ------------------------------------------------------------------ bounds
\* Rows of the `accounts` table the model considers.
Accounts == {"a1", "a2"}
\* DiscordCRMBot objects constructed in one run of the service.
MaxSessions == 3
\* Inserts and deletes on the `accounts` table made by the dashboard.
MaxChanges == 2
\* Messages written into the DM channels from other clients.
MaxPosts == 1
\* Calls of BotManager.sendMessage.
MaxSends == 1
\* requests of GET /health answered in a behaviour
MaxSnapshots == 2
\* POST requests one call of sendMessage may issue before the model stops
\* following it
MaxRequests == 3

\* fetchExistingDMs, line 144: channel.messages.fetch({ limit: 50 })
PageLimit == 50
\* sendMessage, line 234: Array.from({length: 19}, ...)
NonceLength == 19

VARIABLES
    accounts,     \* ids of the rows of the `accounts` table
    subscribed,   \* the realtime subscription of setupRealtimeSubscription is active
    feed,         \* change notifications received and not yet handled, oldest first
    changes,      \* number of account-table changes made so far
    initPc,       \* position of initializeFromDatabase
    initList,     \* the accounts its select returned, in the order returned
    initIdx,      \* index in initList of the account the loop is at
    initResult,   \* per account, what the loop logged for it (lines 318, 320)
    sessions,     \* every DiscordCRMBot constructed, in construction order
    bots,         \* BotManager.bots: account id -> index in sessions, 0 when absent
    lastOp,       \* the manager operation that last returned, and how
    history,      \* the backend's messages of each DM channel, oldest first
    inbox,        \* per session, messageCreate events not yet handled, oldest first
    pending,      \* inserts of recordMessage sent to the store and not yet answered
    imports,      \* per session, the position of its fetchExistingDMs
    store,        \* the rows of the `messages` table, in insertion order
    sends,        \* the calls of BotManager.sendMessage, in call order
    status,       \* the last answer of GET /health, and how many were given
    deleteSeen,   \* accounts whose DELETE notification has been handled
    exited,       \* process.exit was called
    raised,       \* persist paths on which a uniqueness violation became an error
    stopped,      \* per handled removeBot(a): the sessions of a built by then,
                  \* each with the number of messages the backend held by then
    messages,     \* ChatView: the list of messages displayed
    chatSeen,     \* ChatView: stored rows whose INSERT notification it has handled
    chatDone,     \* ChatView: its calls of /api/send-message that have returned
    guildCache,   \* the rows of the guild_cache table
    clock,        \* the current time, in hours
    guildLog      \* GET /api/guilds: what the last request did and answered

uiVars == <<messages, chatSeen, chatDone, guildCache, clock, guildLog>>

svcVars == <<status, deleteSeen, exited, stopped, uiVars>>

regVars == <<accounts, subscribed, feed, changes, initPc, initList, initIdx,
             initResult, sessions, bots, lastOp, svcVars>>

msgVars == <<history, inbox, pending, imports, store, sends, raised>>

vars == <<accounts, subscribed, feed, changes, initPc, initList, initIdx,
          initResult, sessions, bots, lastOp,
          history, inbox, pending, imports, store, sends,
          status, deleteSeen, exited, raised, stopped,
          messages, chatSeen, chatDone, guildCache, clock, guildLog>>

\* ---------------------------------------------------------------- helpers
Range(f) == {f[i] : i \in DOMAIN f}

\* The orders in which a select may return the rows S.
Orders(S) ==
    {l \in [1..Cardinality(S) -> S] : \A i, j \in DOMAIN l : i # j => l[i] # l[j]}

Op(op, a, outcome) == [op |-> op, acct |-> a, outcome |-> outcome]

\* A session is live when it is logged in and has not been destroyed.
Live(s) == sessions[s].state = "ready"

LiveSessions(a) == {s \in DOMAIN sessions : sessions[s].acct = a /\ Live(s)}

\* ---------------------------------------------------------- the backend
\* The Discord user each account's token logs in as (client.user.id), and a
\* peer who is no account of the service.
Users == {"u1", "u2", "p1"}
SelfId(a) == IF a = "a1" THEN "u1" ELSE "u2"

\* The DM channels: one between the two accounts' users, one with the peer.
Channels == {"c12", "c1p"}
ChanUsers(c) == IF c = "c12" THEN {"u1", "u2"} ELSE {"u1", "p1"}

\* channel.recipient of channel c as the client of user u sees it.
Recipient(c, u) == CHOOSE v \in ChanUsers(c) : v # u

\* client.channels.cache of an account's client, in iteration order: the DM
\* channels its user is part of.
DmChannelSeq(a) == IF a = "a1" THEN <<"c12", "c1p">> ELSE <<"c12">>

\* user.createDM(): the DM channel between an account's user and userId.
DmChannelOf(a, userId) ==
    CHOOSE c \in Channels : ChanUsers(c) = {SelfId(a), userId}

Peers(a) == {u \in Users : \E c \in Channels : ChanUsers(c) = {SelfId(a), u}}

\* What another client may write: text, an empty message (an attachment
\* only), a system message.
PostKinds == { [content |-> "hi", system |-> FALSE],
               [content |-> "", system |-> FALSE],
               [content |-> "pin", system |-> TRUE] }

\* Message ids are snowflakes: later messages have larger ids, and createdAt
\* is derived from the id.
MsgCount == Len(history["c12"]) + Len(history["c1p"])
NewMsg(author, content, system) ==
    [id |-> MsgCount + 1, author |-> author, content |-> content, system |-> system]

\* A new message is announced (messageCreate) to every logged-in client whose
\* user is part of the channel, the author's clients included.
Announced(c, m) ==
    [s \in 1..MaxSessions |->
        IF /\ s \in DOMAIN sessions
           /\ sessions[s].state = "ready"
           /\ SelfId(sessions[s].acct) \in ChanUsers(c)
        THEN Append(inbox[s], [chan |-> c, msg |-> m])
        ELSE inbox[s]]

\* ------------------------------------------------------ the messages table
\* supabase-schema.sql, line 21: discord_message_id TEXT UNIQUE.
UniqueViolationNever(row) == FALSE
UniqueViolation(row) ==
    \E i \in DOMAIN store : store[i].discord_message_id = row.discord_message_id

\* The answers an insert of row can get: stored, refused by the unique
\* constraint, or failed otherwise (the request did not get through, or the
\* account of the row is gone: account_id references accounts(id), line 20).
InsertOutcomes(row) ==
    (IF UniqueViolation(row) THEN {"unique"}
     ELSE IF row.account_id \in accounts THEN {"ok"} ELSE {}) \cup {"error"}

StoreAfterAlways(row, outcome) == Append(store, row)
StoreAfter(row, outcome) == IF outcome = "ok" THEN Append(store, row) ELSE store

\* What each persist path does with the error of a refused insert: recordMessage
\* throws it and the handler logs it (lines 82-84, 49-51), recordSentMessage
\* logs and throws it (lines 118-125), the import logs it (lines 184-186). A
\* uniqueness violation is an error like any other on all three.
RaisedAfter(path, outcome) ==
    IF outcome = "unique" THEN raised \cup {path} ELSE raised

\* ------------------------------------------------------------ DiscordCRMBot
\* recordMessage line 60 and 71, fetchExistingDMs line 166.
DirectionFlipped(author, self) == IF author = self THEN "received" ELSE "sent"
Direction(author, self) == IF author = self THEN "sent" ELSE "received"

Reverse(q) == [i \in 1..Len(q) |-> q[Len(q) + 1 - i]]

\* channel.messages.fetch({ limit: 50 }), line 144: the newest PageLimit
\* messages of the channel, newest first.
FetchPage(c) ==
    LET h == history[c]
        n == IF Len(h) > PageLimit THEN PageLimit ELSE Len(h)
    IN [i \in 1..n |-> h[Len(h) + 1 - i]]

\* line 148: Array.from(messages.values()).reverse()
SortedMessagesUnreversed(page) == page
SortedMessages(page) == Reverse(page)

\* line 152: if (!message.content || message.system) continue
Skipped(m) == m.content = "" \/ m.system

\* recordMessage, lines 60-74.
LiveRow(s, c, m) ==
    LET self == SelfId(sessions[s].acct)
        isFromBot == m.author = self
        otherUser == IF isFromBot THEN Recipient(c, self) ELSE m.author
    IN [account_id |-> sessions[s].acct, discord_message_id |-> m.id,
        discord_user_id |-> otherUser, direction |-> Direction(m.author, self),
        content |-> m.content, timestamp |-> m.id, via |-> "live", by |-> s]

\* fetchExistingDMs, lines 166-178.
ImportRow(s, c, m) ==
    LET self == SelfId(sessions[s].acct)
    IN [account_id |-> sessions[s].acct, discord_message_id |-> m.id,
        discord_user_id |-> Recipient(c, self), direction |-> Direction(m.author, self),
        content |-> m.content, timestamp |-> m.id, via |-> "import", by |-> s]

\* recordSentMessage, lines 98-110; messageData is the backend's answer.
SentRow(s, c, m) ==
    [account_id |-> sessions[s].acct, discord_message_id |-> m.id,
     discord_user_id |-> Recipient(c, SelfId(sessions[s].acct)), direction |-> "sent",
     content |-> m.content, timestamp |-> m.id, via |-> "send", by |-> s]

\* fetchExistingDMs has not started / starts (the once('ready') handler,
\* lines 28-37, with dmChannels of line 134).
ImportIdle == [pc |-> "idle", chans |-> <<>>, page |-> <<>>, failed |-> {}]
ImportStart(a) ==
    [pc |-> "fetch", chans |-> DmChannelSeq(a), page |-> <<>>, failed |-> {}]

\* ------------------------------------------------------------- BotManager
\* addBot, line 331: this.bots.has(accountId)
AddBotHasNever(a) == FALSE
AddBotHas(a) == bots[a] # 0

\* addBot, lines 336-337: new DiscordCRMBot(token, accountId); bot.start() is
\* called and the caller is suspended until client.login settles.
NewBot(a, caller) == [acct |-> a, state |-> "connecting", caller |-> caller]

\* addBot, line 338, reached only when start() resolved.
BotsAfterStartEarlySet(s) == [bots EXCEPT ![sessions[s].acct] = s]
BotsAfterStartFailed(s) == bots

\* initializeFromDatabase, lines 315-322: the position of the loop after the
\* account at index idx has been dealt with.
InitAdvance(idx) == IF idx + 1 > Len(initList) THEN "done" ELSE "loop"

\* initializeFromDatabase, lines 319-321: the catch inside the loop.
InitCatchNoTry(idx) == "done"
InitCatch(idx) == InitAdvance(idx)

\* removeBot, lines 346-347: stop() destroys the client, then the mapping goes.
SessionsAfterStop(s) == [sessions EXCEPT ![s].state = "destroyed"]

BotsAfterRemoveAll(a) == [b \in Accounts |-> 0]
BotsAfterRemove(a) == [bots EXCEPT ![a] = 0]

\* ------------------------------------------------------------ environment
\* supabase-schema.sql, line 20: account_id references accounts(id) ON DELETE
\* CASCADE, so the rows of a deleted account go with it.
CascadeAll(a) == <<>>
Cascade(a) == SelectSeq(store, LAMBDA row : row.account_id # a)

\* The dashboard inserts a row in `accounts`; a subscribed service is notified.
EnvInsertAccount(a) ==
    /\ ~exited
    /\ changes < MaxChanges
    /\ a \notin accounts
    /\ accounts' = accounts \cup {a}
    /\ changes' = changes + 1
    /\ feed' = IF subscribed THEN Append(feed, [ev |-> "INSERT", id |-> a]) ELSE feed
    /\ UNCHANGED msgVars
    /\ UNCHANGED <<subscribed, initPc, initList, initIdx, initResult, sessions,
                   bots, lastOp>>
    /\ UNCHANGED svcVars

\* guild_cache.account_id REFERENCES accounts(id) ON DELETE CASCADE.
CascadeCache(a) == {e \in guildCache : e.account_id # a}

EnvDeleteAccount(a) ==
    /\ ~exited
    /\ changes < MaxChanges
    /\ a \in accounts
    /\ accounts' = accounts \ {a}
    /\ changes' = changes + 1
    /\ feed' = IF subscribed THEN Append(feed, [ev |-> "DELETE", id |-> a]) ELSE feed
    /\ store' = Cascade(a)
    /\ guildCache' = CascadeCache(a)
    /\ UNCHANGED <<history, inbox, pending, imports, sends, raised>>
    /\ UNCHANGED <<subscribed, initPc, initList, initIdx, initResult, sessions,
                   bots, lastOp>>
    /\ UNCHANGED <<status, deleteSeen, exited, stopped, messages, chatSeen,
                   chatDone, clock, guildLog>>

\* setupRealtimeSubscription, lines 381-411: the subscription becomes active.
Subscribe ==
    /\ ~exited
    /\ ~subscribed
    /\ subscribed' = TRUE
    /\ UNCHANGED msgVars
    /\ UNCHANGED <<accounts, feed, changes, initPc, initList, initIdx, initResult,
                   sessions, bots, lastOp>>
    /\ UNCHANGED svcVars

\* ------------------------------------------------- initializeFromDatabase
\* lines 307-313: the select over `accounts` answers.
InitSelect ==
    /\ ~exited
    /\ initPc = "select"
    /\ \E l \in Orders(accounts) :
        /\ initList' = l
        /\ initPc' = IF l = <<>> THEN "done" ELSE "loop"
    /\ initIdx' = 1
    /\ UNCHANGED msgVars
    /\ UNCHANGED <<accounts, subscribed, feed, changes, initResult, sessions, bots,
                   lastOp>>
    /\ UNCHANGED svcVars

\* lines 311, 325-327: the select fails; the outer catch logs it.
InitSelectError ==
    /\ ~exited
    /\ initPc = "select"
    /\ initPc' = "done"
    /\ UNCHANGED msgVars
    /\ UNCHANGED <<accounts, subscribed, feed, changes, initList, initIdx,
                   initResult, sessions, bots, lastOp>>
    /\ UNCHANGED svcVars

\* line 317: the loop calls addBot for the next account.
InitAddBot ==
    /\ ~exited
    /\ initPc = "loop"
    /\ LET a == initList[initIdx] IN
        IF AddBotHas(a)
        THEN /\ initResult' = [initResult EXCEPT ![a] = "ok"]
             /\ initPc' = InitAdvance(initIdx)
             /\ initIdx' = initIdx + 1
             /\ lastOp' = Op("addBot", a, "exists")
             /\ UNCHANGED sessions
        ELSE /\ Len(sessions) < MaxSessions
             /\ sessions' = Append(sessions, NewBot(a, "init"))
             /\ initPc' = "await"
             /\ lastOp' = Op("addBot", a, "starting")
             /\ UNCHANGED <<initResult, initIdx>>
    /\ UNCHANGED msgVars
    /\ UNCHANGED <<accounts, subscribed, feed, changes, initList, bots>>
    /\ UNCHANGED svcVars

\* ------------------------------------------------------------ change feed
\* lines 390-397: the INSERT handler calls addBot.
HandleInsert ==
    /\ ~exited
    /\ feed # <<>>
    /\ Head(feed).ev = "INSERT"
    /\ LET a == Head(feed).id IN
        IF AddBotHas(a)
        THEN /\ lastOp' = Op("addBot", a, "exists")
             /\ UNCHANGED sessions
        ELSE /\ Len(sessions) < MaxSessions
             /\ sessions' = Append(sessions, NewBot(a, "feed"))
             /\ lastOp' = Op("addBot", a, "starting")
    /\ feed' = Tail(feed)
    /\ UNCHANGED msgVars
    /\ UNCHANGED <<accounts, subscribed, changes, initPc, initList, initIdx,
                   initResult, bots>>
    /\ UNCHANGED svcVars

\* removeBot, lines 343-350. stop() awaits nothing, so the delete runs in the
\* same turn of the event loop as the stop.
removeBot(a) ==
    /\ IF bots[a] # 0
       THEN /\ sessions' = SessionsAfterStop(bots[a])
            /\ bots' = BotsAfterRemove(a)
            /\ lastOp' = Op("removeBot", a, "removed")
       ELSE /\ lastOp' = Op("removeBot", a, "absent")
            /\ UNCHANGED <<sessions, bots>>

\* lines 406-409: the DELETE handler calls removeBot.
HandleDelete ==
    /\ ~exited
    /\ feed # <<>>
    /\ Head(feed).ev = "DELETE"
    /\ removeBot(Head(feed).id)
    /\ deleteSeen' = deleteSeen \cup {Head(feed).id}
    /\ stopped' = stopped \cup
                    {[sess |-> s, after |-> MsgCount] :
                        s \in {x \in DOMAIN sessions : sessions[x].acct = Head(feed).id}}
    /\ feed' = Tail(feed)
    /\ UNCHANGED msgVars
    /\ UNCHANGED <<accounts, subscribed, changes, initPc, initList, initIdx,
                   initResult>>
    /\ UNCHANGED <<status, exited, uiVars>>

\* ------------------------------------------------- addBot after bot.start()
\* start() resolved (client.login succeeded, lines 207-208): addBot goes on to
\* line 338; a call made by the init loop returns to line 318.
AddBotStarted(s) ==
    /\ ~exited
    /\ sessions[s].state = "connecting"
    /\ sessions' = [sessions EXCEPT ![s].state = "ready"]
    /\ bots' = [bots EXCEPT ![sessions[s].acct] = s]
    /\ lastOp' = Op("addBot", sessions[s].acct, "added")
    /\ IF sessions[s].caller = "init"
       THEN /\ initResult' = [initResult EXCEPT ![sessions[s].acct] = "ok"]
            /\ initPc' = InitAdvance(initIdx)
            /\ initIdx' = initIdx + 1
       ELSE UNCHANGED <<initResult, initPc, initIdx>>
    /\ imports' = [imports EXCEPT ![s] = ImportStart(sessions[s].acct)]
    /\ UNCHANGED <<history, inbox, pending, store, sends, raised>>
    /\ UNCHANGED <<accounts, subscribed, feed, changes, initList>>
    /\ UNCHANGED svcVars

\* start() rejected (lines 209-221): addBot throws at line 337; the init loop
\* catches at line 319, the INSERT handler at line 394.
AddBotStartFailed(s) ==
    /\ ~exited
    /\ sessions[s].state = "connecting"
    /\ sessions' = [sessions EXCEPT ![s].state = "failed"]
    /\ bots' = BotsAfterStartFailed(s)
    /\ lastOp' = Op("addBot", sessions[s].acct, "threw")
    /\ IF sessions[s].caller = "init"
       THEN /\ initResult' = [initResult EXCEPT ![sessions[s].acct] = "failed"]
            /\ initPc' = InitCatch(initIdx)
            /\ initIdx' = initIdx + 1
       ELSE UNCHANGED <<initResult, initPc, initIdx>>
    /\ UNCHANGED msgVars
    /\ UNCHANGED <<accounts, subscribed, feed, changes, initList>>
    /\ UNCHANGED svcVars

\* ------------------------------------------------------------ GET /health
\* BotManager.getBotStatus, lines 371-376: bots.size and the keys of bots.
RegisteredKeys == {a \in Accounts : bots[a] # 0}
TotalBotsSessions == Len(sessions)
TotalBots == Cardinality(RegisteredKeys)
getBotStatus == [totalBots |-> TotalBots, activeBots |-> RegisteredKeys]

\* No request of /health has been answered yet.
NoStatus == [n |-> 0, totalBots |-> 0, activeBots |-> {}]

\* GET /health, lines 424-431: the answer spreads getBotStatus().
GetHealth ==
    /\ ~exited
    /\ status.n < MaxSnapshots
    /\ status' = [n |-> status.n + 1, totalBots |-> getBotStatus.totalBots,
                  activeBots |-> getBotStatus.activeBots]
    /\ UNCHANGED msgVars
    /\ UNCHANGED <<accounts, subscribed, feed, changes, initPc, initList, initIdx,
                   initResult, sessions, bots, lastOp, deleteSeen, exited, stopped, uiVars>>

\* ----------------------------------------------------------------- SIGINT
\* lines 488-490: the loop over botManager.bots. Neither removeBot nor
\* stop() awaits anything pending, so no other callback runs before the loop
\* ends; a Map iterator visits every entry although entries are deleted.
SigintKeysFirst == IF RegisteredKeys = {} THEN {}
                   ELSE {CHOOSE a \in RegisteredKeys : TRUE}
SigintKeys == RegisteredKeys

\* process.on('SIGINT'), lines 485-494: removeBot for each key, then exit.
Sigint ==
    /\ ~exited
    /\ sessions' = [s \in DOMAIN sessions |->
                      IF \E a \in SigintKeys : bots[a] = s
                      THEN [sessions[s] EXCEPT !.state = "destroyed"]
                      ELSE sessions[s]]
    /\ bots' = [a \in Accounts |-> IF a \in SigintKeys THEN 0 ELSE bots[a]]
    /\ lastOp' = Op("exit", "-", "-")
    /\ exited' = TRUE
    /\ UNCHANGED msgVars
    /\ UNCHANGED <<accounts, subscribed, feed, changes, initPc, initList, initIdx,
                   initResult, status, deleteSeen, stopped, uiVars>>

\* ------------------------------------------------- messages from elsewhere
SentCount == Cardinality({i \in DOMAIN sends : sends[i].msg # 0})

\* A user writes into a DM channel from another client (a peer, or the
\* account's owner using Discord directly).
EnvPost(c, u, k) ==
    /\ MsgCount - SentCount < MaxPosts
    /\ u \in ChanUsers(c)
    /\ LET m == NewMsg(u, k.content, k.system) IN
        /\ history' = [history EXCEPT ![c] = Append(@, m)]
        /\ inbox' = Announced(c, m)
    /\ UNCHANGED <<pending, imports, store, sends, raised>>
    /\ UNCHANGED regVars

\* ------------------------------------------------- the messageCreate handler
\* lines 39-52 up to the await inside recordMessage (line 78): every channel
\* of the model is a DM channel, a message of the account itself is skipped,
\* any other is sent to the store.
HandleMessageCreate(s) ==
    /\ s \in DOMAIN sessions
    /\ sessions[s].state = "ready"
    /\ inbox[s] # <<>>
    /\ LET ev == Head(inbox[s]) IN
        pending' = IF ev.msg.author = SelfId(sessions[s].acct)
                   THEN pending
                   ELSE pending \cup {LiveRow(s, ev.chan, ev.msg)}
    /\ inbox' = [inbox EXCEPT ![s] = Tail(@)]
    /\ UNCHANGED <<history, imports, store, sends, raised>>
    /\ UNCHANGED regVars

\* lines 46-51: the handler awaits recordMessage inside try/catch, so the
\* error recordMessage throws is logged and goes no further; uncaught, the
\* rejection of the async listener would end the process and the session
\* with it.
HandlerNoCatch(s, outcome) ==
    IF outcome = "ok" THEN sessions ELSE [sessions EXCEPT ![s].state = "destroyed"]
HandlerCatch(s, outcome) == sessions

\* lines 78-86: the store answers the insert of recordMessage; an error is
\* thrown to the handler, which logs it (lines 49-51).
RecordMessageInsert(row) ==
    /\ row \in pending
    /\ \E outcome \in InsertOutcomes(row) :
        /\ store' = StoreAfter(row, outcome)
        /\ raised' = RaisedAfter("live", outcome)
        /\ sessions' = HandlerCatch(row.by, outcome)
    /\ pending' = pending \ {row}
    /\ UNCHANGED <<history, inbox, imports, sends>>
    /\ UNCHANGED <<accounts, subscribed, feed, changes, initPc, initList, initIdx,
                   initResult, bots, lastOp, svcVars>>

\* ---------------------------------------------------------- fetchExistingDMs
KeptAll(m) == TRUE
Kept(m) == ~Skipped(m)

\* The loops of lines 139 and 150 after the message at the head of the page
\* has been dealt with: the next message, the next channel, or the end.
ImportContinue(imp, rest) ==
    IF rest # <<>>
    THEN [pc |-> "check", chans |-> imp.chans, page |-> rest, failed |-> imp.failed]
    ELSE IF Len(imp.chans) > 1
         THEN [pc |-> "fetch", chans |-> Tail(imp.chans), page |-> <<>>,
               failed |-> imp.failed]
         ELSE [pc |-> "done", chans |-> <<>>, page |-> <<>>, failed |-> imp.failed]

\* lines 191-193: the catch inside the loop over the channels logs the
\* channel whose fetch failed; the loop goes on with the next channel.
ImportAfterFetchErrorAbort(imp) ==
    [pc |-> "done", chans |-> <<>>, page |-> <<>>,
     failed |-> imp.failed \cup {Head(imp.chans)}]
ImportAfterFetchError(imp) ==
    ImportContinue([imp EXCEPT !.failed = @ \cup {Head(imp.chans)}], <<>>)

\* lines 144-152: the page of the channel arrives and is put oldest first;
\* empty and system messages are passed over.
ImportFetch(s) ==
    /\ s \in DOMAIN sessions
    /\ imports[s].pc = "fetch"
    /\ LET c == Head(imports[s].chans)
           page == SelectSeq(SortedMessages(FetchPage(c)), Kept)
       IN imports' = [imports EXCEPT ![s] = ImportContinue(@, page)]
    /\ UNCHANGED <<history, inbox, pending, store, sends, raised>>
    /\ UNCHANGED regVars

\* lines 191-193: the fetch of the channel fails; the next channel is tried.
ImportFetchError(s) ==
    /\ s \in DOMAIN sessions
    /\ imports[s].pc = "fetch"
    /\ imports' = [imports EXCEPT ![s] = ImportAfterFetchError(@)]
    /\ UNCHANGED <<history, inbox, pending, store, sends, raised>>
    /\ UNCHANGED regVars

\* lines 155-163: the select by discord_message_id answers. A failed select
\* leaves existingMessage null, as a select that finds nothing does.
ImportCheck(s) ==
    /\ s \in DOMAIN sessions
    /\ imports[s].pc = "check"
    /\ LET m == Head(imports[s].page)
           found == \E i \in DOMAIN store : store[i].discord_message_id = m.id
       IN \/ /\ found
             /\ imports' = [imports EXCEPT ![s] = ImportContinue(@, Tail(@.page))]
          \/ imports' = [imports EXCEPT ![s].pc = "insert"]
    /\ UNCHANGED <<history, inbox, pending, store, sends, raised>>
    /\ UNCHANGED regVars

\* lines 166-188: the store answers the insert; an error is logged.
ImportInsert(s) ==
    /\ s \in DOMAIN sessions
    /\ imports[s].pc = "insert"
    /\ LET c == Head(imports[s].chans)
           row == ImportRow(s, c, Head(imports[s].page))
       IN \E outcome \in InsertOutcomes(row) :
            /\ store' = StoreAfter(row, outcome)
            /\ raised' = RaisedAfter("import", outcome)
    /\ imports' = [imports EXCEPT ![s] = ImportContinue(@, Tail(@.page))]
    /\ UNCHANGED <<history, inbox, pending, sends>>
    /\ UNCHANGED regVars

\* ------------------------------------------------------------- sendMessage
\* What the backend may answer to a send it refuses: the response status and
\* errorData.message || response.statusText (line 269). 429 is the status of
\* a rate-limiting response.
RateLimitStatus == 429
Statuses == {RateLimitStatus, 500}
Texts == {"refused", "slow down"}

\* DiscordCRMBot.sendMessage, line 269: the message of the Error thrown for a
\* response that is not OK, `Discord API error ${status}: ${text}`.
ErrorMessageNoStatus(code, text) == <<"Discord API error", text>>
ErrorMessage(code, text) == <<"Discord API error", code, text>>

\* The message of the error fetch() rejects with when no response arrives
\* (line 244), and of the errors of users.fetch / createDM (lines 360-361).
NetworkError == <<"fetch failed">>
ResolveError == <<"Unknown User">>

\* BotManager.sendMessage, line 355.
NotFoundError(a) == <<"No bot found for account", a>>

\* POST /send-message, lines 447-450: what the caller gets for a thrown error.
Surfaced(message) == [status |-> 500, error |-> message]

\* Math.random() gives a number in [0, 1); the model follows it in tenths, as
\* the k of k/10.
Tenths == 0..9

\* line 234, one character of the nonce: Math.floor(Math.random() * 9) + 1.
NonceDigitWide(k) == ((k * 10) \div 9) + 1
NonceDigit(k) == ((k * 9) \div 10) + 1

\* line 234: the nonce is the characters of NonceLength draws, joined.
Nonce(rnd) == [i \in 1..NonceLength |-> NonceDigit(rnd[i])]

\* The runs of draws followed: the same number every time, and numbers that
\* go up by one or by three from draw to draw.
Draws ==
    {[i \in 1..NonceLength |-> (i * step + k) % 10] : k \in Tenths, step \in {0, 1, 3}}
DrawsMsg == {[i \in 1..NonceLength |-> 4]}

\* Why a send failed: the step that failed and, for a response that is not
\* OK, its status (0 otherwise).
Cause(kind, code) == [kind |-> kind, status |-> code]

Send(a, userId, content, pc, result) ==
    [acct |-> a, peer |-> userId, content |-> content, pc |-> pc, sess |-> bots[a],
     chan |-> "-", msg |-> 0, result |-> result, reqs |-> {}, posts |-> 0,
     nonce |-> <<>>,
     cause |-> IF result = "NotFound" THEN Cause("nobot", 0) ELSE Cause("-", 0),
     response |-> IF result = "NotFound" THEN Surfaced(NotFoundError(a))
                  ELSE Surfaced(<<>>)]

\* BotManager.sendMessage, lines 353-356: the lookup of the bot.
SendBotMissingNever(a) == FALSE
SendBotMissing(a) == bots[a] = 0

\* BotManager.sendMessage is called (POST /send-message, line 444).
ManagerSendMessage(a, userId, content) ==
    /\ Len(sends) < MaxSends
    /\ sends' = Append(sends,
                  IF SendBotMissing(a)
                  THEN Send(a, userId, content, "done", "NotFound")
                  ELSE Send(a, userId, content, "resolve", "-"))
    /\ UNCHANGED <<history, inbox, pending, imports, store, raised>>
    /\ UNCHANGED regVars

\* lines 360-361: users.fetch(userId), then user.createDM().
SendResolve(i, rnd) ==
    /\ i \in DOMAIN sends
    /\ sends[i].pc = "resolve"
    /\ \/ sends' = [sends EXCEPT ![i].reqs = {"userFetch"},
                                 ![i].pc = "done", ![i].result = "error",
                                 ![i].cause = Cause("resolve", 0),
                                 ![i].response = Surfaced(ResolveError)]
       \/ sends' = [sends EXCEPT ![i].reqs = {"userFetch", "createDM"},
                                 ![i].pc = "done", ![i].result = "error",
                                 ![i].cause = Cause("resolve", 0),
                                 ![i].response = Surfaced(ResolveError)]
       \/ sends' = [sends EXCEPT ![i].reqs = {"userFetch", "createDM"},
                                 ![i].chan = DmChannelOf(sends[i].acct, sends[i].peer),
                                 ![i].nonce = Nonce(rnd),
                                 ![i].pc = "post"]
    /\ UNCHANGED <<history, inbox, pending, imports, store, raised>>
    /\ UNCHANGED regVars

\* lines 290-293: the catch of sendMessage logs the error and throws it again;
\* the call is over, the POST is not issued a second time.
PcAfterPostErrorRetry == "post"
PcAfterPostError == "done"

\* DiscordCRMBot.sendMessage, lines 244-272: the POST is answered OK; the
\* backend has created the message and announces it.
SendPost(i) ==
    /\ i \in DOMAIN sends
    /\ sends[i].pc = "post"
    /\ LET c == sends[i].chan
           m == NewMsg(SelfId(sends[i].acct), sends[i].content, FALSE)
       IN /\ history' = [history EXCEPT ![c] = Append(@, m)]
          /\ inbox' = Announced(c, m)
          /\ sends' = [sends EXCEPT ![i].reqs = @ \cup {"post"}, ![i].msg = m.id,
                                    ![i].posts = @ + 1, ![i].pc = "record"]
    /\ UNCHANGED <<pending, imports, store, raised>>
    /\ UNCHANGED regVars

\* lines 267-270, 290-293: the POST fails or is answered not OK; the error is
\* thrown to the caller.
SendPostError(i) ==
    /\ i \in DOMAIN sends
    /\ sends[i].pc = "post"
    /\ sends[i].posts < MaxRequests
    /\ \/ \E st \in Statuses, tx \in Texts :
            sends' = [sends EXCEPT ![i].reqs = @ \cup {"post"}, ![i].posts = @ + 1,
                                   ![i].pc = PcAfterPostError,
                                   ![i].result = "error", ![i].cause = Cause("http", st),
                                   ![i].response = Surfaced(ErrorMessage(st, tx))]
       \/ sends' = [sends EXCEPT ![i].reqs = @ \cup {"post"}, ![i].posts = @ + 1,
                                 ![i].pc = PcAfterPostError,
                                 ![i].result = "error", ![i].cause = Cause("network", 0),
                                 ![i].response = Surfaced(NetworkError)]
    /\ UNCHANGED <<history, inbox, pending, imports, store, raised>>
    /\ UNCHANGED regVars

\* lines 276-288 with recordSentMessage, lines 89-127: the store answers the
\* insert of the sent message; an error is logged at line 280 and the call
\* returns success with the backend's id and content.
SendRecord(i) ==
    /\ i \in DOMAIN sends
    /\ sends[i].pc = "record"
    /\ LET c == sends[i].chan
           m == CHOOSE x \in Range(history[c]) : x.id = sends[i].msg
           row == SentRow(sends[i].sess, c, m)
       IN \E outcome \in InsertOutcomes(row) :
            /\ store' = StoreAfter(row, outcome)
            /\ raised' = RaisedAfter("send", outcome)
    /\ sends' = [sends EXCEPT ![i].pc = "done", ![i].result = "success"]
    /\ UNCHANGED <<history, inbox, pending, imports>>
    /\ UNCHANGED regVars

\* ----------------------------------------------------------------- ChatView
\* The conversation the component shows: its props account and userId.
ChatAccount == "a1"
ChatUser == "u2"

\* Message.id as ChatView meets it: the primary key of a row (a uuid the
\* table generates, one per row), or the id the backend gave the message.
Id(kind, n) == [kind |-> kind, n |-> n]
RowUuid(j) == Id("uuid", j)

\* The callbacks of setMessages, lines 99-106 and 164-169: the entry is
\* appended unless an entry with its id is listed.
ChatAppend(prev, e) ==
    IF \E k \in DOMAIN prev : prev[k].id = e.id THEN prev ELSE Append(prev, e)

\* lines 91-110: the INSERT notification of a row of the account arrives.
ChatRealtime(j) ==
    /\ j \in DOMAIN store
    /\ j \notin chatSeen
    /\ store[j].account_id = ChatAccount
    /\ chatSeen' = chatSeen \cup {j}
    /\ messages' = IF store[j].discord_user_id = ChatUser
                   THEN ChatAppend(messages,
                            [id |-> RowUuid(j), direction |-> store[j].direction,
                             content |-> store[j].content])
                   ELSE messages
    /\ UNCHANGED <<chatDone, guildCache, clock, guildLog>>
    /\ UNCHANGED msgVars
    /\ UNCHANGED <<accounts, subscribed, feed, changes, initPc, initList, initIdx,
                   initResult, sessions, bots, lastOp, status, deleteSeen, exited,
                   stopped>>

\* lines 135-171 and 189-201: /api/send-message has answered. After a
\* success the message is listed under result.messageId, the id the backend
\* gave it (part_005, line 286); after a failure nothing is listed.
ChatOptimistic(i) ==
    /\ i \in DOMAIN sends
    /\ i \notin chatDone
    /\ sends[i].pc = "done"
    /\ sends[i].acct = ChatAccount
    /\ sends[i].peer = ChatUser
    /\ chatDone' = chatDone \cup {i}
    /\ messages' = IF sends[i].result = "success"
                   THEN ChatAppend(messages,
                            [id |-> Id("snowflake", sends[i].msg), direction |-> "sent",
                             content |-> sends[i].content])
                   ELSE messages
    /\ UNCHANGED <<chatSeen, guildCache, clock, guildLog>>
    /\ UNCHANGED msgVars
    /\ UNCHANGED <<accounts, subscribed, feed, changes, initPc, initList, initIdx,
                   initResult, sessions, bots, lastOp, status, deleteSeen, exited,
                   stopped>>

\* ---------------------------------------------------------- GET /api/guilds
\* Guilds the accounts are members of.
Guilds == {"g1", "g2"}
\* Hours a cache entry stays valid, line 363.
CacheTtl == 24
\* Hours the clock advances in the model.
MaxClock == 3
\* Requests answered in the model.
MaxGets == 2
\* accountId parameters of well-formed requests: the accounts and an id no
\* account ever had.
GuildRequestIds == Accounts \cup {"a9"}
\* Outcomes of one query of the store.
QueryOutcomes == {"ok", "error"}
\* Outcomes of the request to discord.com, lines 203-225.
DiscordOutcomes == {"ok", "429", "error"}

\* A row of guild_cache: at most one per (account_id, guild_id).
CacheEntry(a, g, e) == [account_id |-> a, guild_id |-> g, expires_at |-> e]

\* No request has been answered yet.
NoRequest ==
    [n |-> 0, force |-> FALSE, acct |-> "-", discord |-> 0, code |-> 0,
     queried |-> "-", guilds |-> {}, from_cache |-> FALSE]

\* The answer of one request: whether it was forced, its account, the
\* requests it made to discord.com, its status, the outcome of its cache
\* query ("-": none made), and the guilds and from_cache of its body.
Answer(force, a, discord, code, queried, guilds, fromCache) ==
    [n |-> guildLog.n + 1, force |-> force, acct |-> a, discord |-> discord,
     code |-> code, queried |-> queried, guilds |-> guilds,
     from_cache |-> fromCache]

\* lines 119-133: the rows the cache query returns, null (here: none) when
\* the query fails.
CacheSelect(a, q) ==
    IF q = "ok" THEN {e \in guildCache : e.account_id = a} ELSE {}

ValidCachedAny(cached, now) == cached

\* lines 136-142: the entries that have not expired.
ValidCached(cached, now) == {e \in cached : e.expires_at > now}

\* lines 98-110: the account is found.
AccountFound(a, l) == a \in accounts /\ l = "ok"

\* GET /api/guilds?accountId=a without force=true, lines 72-198.
GuildsGetCached(a, l, q) ==
    /\ guildLog.n < MaxGets
    /\ guildLog' =
          IF ~AccountFound(a, l)
          THEN Answer(FALSE, a, 0, 404, "-", {}, FALSE)
          ELSE LET valid == ValidCached(CacheSelect(a, q), clock)
               IN  Answer(FALSE, a, 0, 200, q, valid, valid # {})
    /\ UNCHANGED <<messages, chatSeen, chatDone, guildCache, clock>>
    /\ UNCHANGED msgVars
    /\ UNCHANGED <<accounts, subscribed, feed, changes, initPc, initList, initIdx,
                   initResult, sessions, bots, lastOp, status, deleteSeen, exited,
                   stopped>>

\* The rows of a after the cache was rewritten with the guilds `got`, lines
\* 346-391: the old rows are deleted unless the delete fails, the new rows
\* are inserted in one batch unless the insert fails or a row of the batch
\* meets a row of its (account_id, guild_id).
CacheAfterRefresh(a, got, del, ins) ==
    LET kept == IF del = "ok" THEN {e \in guildCache : e.account_id # a}
                ELSE guildCache
        clash == \E e \in kept : e.account_id = a /\ e.guild_id \in got
    IN  IF got = {} THEN guildCache
        ELSE IF ins = "ok" /\ ~clash
        THEN kept \cup {CacheEntry(a, g, clock + CacheTtl) : g \in got}
        ELSE kept

\* GET /api/guilds?accountId=a&force=true, lines 72-110 and 200-407: d is
\* the answer of discord.com, got the guilds that were processed.
GuildsGetForce(a, l, d, got, del, ins) ==
    /\ guildLog.n < MaxGets
    /\ IF ~AccountFound(a, l)
       THEN /\ guildLog' = Answer(TRUE, a, 0, 404, "-", {}, FALSE)
            /\ UNCHANGED guildCache
       ELSE IF d # "ok"
       THEN /\ guildLog' = Answer(TRUE, a, 1, IF d = "429" THEN 429 ELSE 500,
                                  "-", {}, FALSE)
            /\ UNCHANGED guildCache
       ELSE /\ guildLog' = Answer(TRUE, a, 1, 200, "-",
                                  {CacheEntry(a, g, clock + CacheTtl) : g \in got},
                                  FALSE)
            /\ guildCache' = CacheAfterRefresh(a, got, del, ins)
    /\ UNCHANGED <<messages, chatSeen, chatDone, clock>>
    /\ UNCHANGED msgVars
    /\ UNCHANGED <<accounts, subscribed, feed, changes, initPc, initList, initIdx,
                   initResult, sessions, bots, lastOp, status, deleteSeen, exited,
                   stopped>>

\* An hour passes.
Tick ==
    /\ clock < MaxClock
    /\ clock' = clock + 1
    /\ UNCHANGED <<messages, chatSeen, chatDone, guildCache, guildLog>>
    /\ UNCHANGED msgVars
    /\ UNCHANGED <<accounts, subscribed, feed, changes, initPc, initList, initIdx,
                   initResult, sessions, bots, lastOp, status, deleteSeen, exited,
                   stopped>>

\* ---------------------------------------------------------- specification
\* new BotManager() (lines 298-301, 464), before any await has answered.
Init ==
    /\ accounts \in SUBSET Accounts
    /\ subscribed = FALSE
    /\ feed = <<>>
    /\ changes = 0
    /\ initPc = "select"
    /\ initList = <<>>
    /\ initIdx = 1
    /\ initResult = [a \in Accounts |-> "none"]
    /\ sessions = <<>>
    /\ bots = [a \in Accounts |-> 0]
    /\ lastOp = Op("none", "-", "-")
    /\ history = [c \in Channels |-> <<>>]
    /\ inbox = [s \in 1..MaxSessions |-> <<>>]
    /\ pending = {}
    /\ imports = [s \in 1..MaxSessions |-> ImportIdle]
    /\ store = <<>>
    /\ sends = <<>>
    /\ status = NoStatus
    /\ deleteSeen = {}
    /\ exited = FALSE
    /\ raised = {}
    /\ stopped = {}
    /\ messages = <<>>
    /\ chatSeen = {}
    /\ chatDone = {}
    /\ guildCache = {}
    /\ clock = 0
    /\ guildLog = NoRequest

Next ==
    \/ \E a \in Accounts : EnvInsertAccount(a)
    \/ \E a \in Accounts : EnvDeleteAccount(a)
    \/ Subscribe
    \/ InitSelect
    \/ InitSelectError
    \/ InitAddBot
    \/ HandleInsert
    \/ HandleDelete
    \/ \E s \in DOMAIN sessions : AddBotStarted(s)
    \/ \E s \in DOMAIN sessions : AddBotStartFailed(s)
    \/ GetHealth
    \/ Sigint

Spec == Init /\ [][Next]_vars

\* The service once initializeFromDatabase has dealt with accounts a1 and a2:
\* a1 is logged in and registered, a2 is too or its login was rejected. Each
\* logged-in client has just emitted 'ready'.
InitMsg ==
    /\ accounts = Accounts
    /\ subscribed = TRUE
    /\ feed = <<>>
    /\ changes = 0
    /\ initPc = "done"
    /\ initList = <<"a1", "a2">>
    /\ initIdx = 3
    /\ \E ok2 \in BOOLEAN :
        /\ initResult = [a \in Accounts |-> IF a = "a2" /\ ~ok2 THEN "failed" ELSE "ok"]
        /\ sessions = << [acct |-> "a1", state |-> "ready", caller |-> "init"],
                         [acct |-> "a2", state |-> IF ok2 THEN "ready" ELSE "failed",
                          caller |-> "init"] >>
        /\ bots = [a \in Accounts |-> IF a = "a1" THEN 1 ELSE IF ok2 THEN 2 ELSE 0]
        /\ lastOp = Op("addBot", "a2", IF ok2 THEN "added" ELSE "threw")
        /\ imports = [s \in 1..MaxSessions |->
                        IF s = 1 \/ (s = 2 /\ ok2)
                        THEN ImportStart(IF s = 1 THEN "a1" ELSE "a2")
                        ELSE ImportIdle]
    /\ history = [c \in Channels |-> <<>>]
    /\ inbox = [s \in 1..MaxSessions |-> <<>>]
    /\ pending = {}
    /\ store = <<>>
    /\ sends = <<>>
    /\ status = NoStatus
    /\ deleteSeen = {}
    /\ exited = FALSE
    /\ raised = {}
    /\ stopped = {}
    /\ messages = <<>>
    /\ chatSeen = {}
    /\ chatDone = {}
    /\ guildCache = {}
    /\ clock = 0
    /\ guildLog = NoRequest

NextMsg ==
    \/ \E c \in Channels, u \in Users, k \in PostKinds : EnvPost(c, u, k)
    \/ \E s \in 1..MaxSessions : HandleMessageCreate(s)
    \/ \E row \in pending : RecordMessageInsert(row)
    \/ \E s \in 1..MaxSessions : ImportFetch(s)
    \/ \E s \in 1..MaxSessions : ImportFetchError(s)
    \/ \E s \in 1..MaxSessions : ImportCheck(s)
    \/ \E s \in 1..MaxSessions : ImportInsert(s)
    \/ \E a \in Accounts : \E u \in Peers(a) : ManagerSendMessage(a, u, "hello")
    \/ \E i \in 1..MaxSends : \E rnd \in DrawsMsg : SendResolve(i, rnd)
    \/ \E i \in 1..MaxSends : SendPost(i)
    \/ \E i \in 1..MaxSends : SendPostError(i)
    \/ \E i \in 1..MaxSends : SendRecord(i)

SpecMsg == InitMsg /\ [][NextMsg]_vars

\* ------------------------------------------------- restart of the service
\* The process is stopped while it manages the one account a and is started
\* again: main() builds a new BotManager, initializeFromDatabase adds a bot
\* for a, its client logs in and emits 'ready', which starts
\* fetchExistingDMs anew (lines 28-37). What the old process was doing ends
\* with it.
Restart(a) ==
    /\ accounts = {a}
    /\ bots[a] # 0
    /\ Len(sessions) < MaxSessions
    /\ pending = {}
    /\ LET new == Len(sessions) + 1 IN
        /\ sessions' = Append([s \in DOMAIN sessions |->
                                 [sessions[s] EXCEPT !.state =
                                     IF @ = "ready" THEN "destroyed" ELSE @]],
                              [acct |-> a, state |-> "ready", caller |-> "init"])
        /\ bots' = [bots EXCEPT ![a] = new]
        /\ imports' = [s \in 1..MaxSessions |->
                         IF s = new THEN ImportStart(a)
                         ELSE IF imports[s].pc \in {"idle", "done"} THEN imports[s]
                         ELSE [imports[s] EXCEPT !.pc = "crashed"]]
    /\ lastOp' = Op("addBot", a, "added")
    /\ UNCHANGED <<history, inbox, pending, store, sends, raised>>
    /\ UNCHANGED <<accounts, subscribed, feed, changes, initPc, initList, initIdx,
                   initResult, svcVars>>

\* setupEventHandlers, line 28: client.once('ready', ...). The listener is
\* removed when it first runs, which is when the import leaves "idle"; a
\* 'ready' emitted after that finds no listener.
OnReadyEveryTime(s) == ImportStart(sessions[s].acct)
OnReady(s) ==
    IF imports[s].pc = "idle" THEN ImportStart(sessions[s].acct) ELSE imports[s]

\* The client of a logged-in session emits 'ready' once more (the gateway
\* connection was lost and identified anew).
ReadyEmitted(s) ==
    /\ s \in DOMAIN sessions
    /\ sessions[s].state = "ready"
    /\ imports' = [imports EXCEPT ![s] = OnReady(s)]
    /\ UNCHANGED <<history, inbox, pending, store, sends, raised>>
    /\ UNCHANGED regVars

\* The registry and the live stream together: accounts come and go while
\* peers write to the DM channels.
NextRm ==
    \/ \E a \in Accounts : EnvInsertAccount(a)
    \/ \E a \in Accounts : EnvDeleteAccount(a)
    \/ Subscribe
    \/ InitSelect
    \/ InitSelectError
    \/ InitAddBot
    \/ HandleInsert
    \/ HandleDelete
    \/ \E s \in DOMAIN sessions : AddBotStarted(s)
    \/ \E s \in DOMAIN sessions : AddBotStartFailed(s)
    \/ \E c \in Channels, u \in Users, k \in PostKinds : EnvPost(c, u, k)
    \/ \E s \in 1..MaxSessions : HandleMessageCreate(s)
    \/ \E row \in pending : RecordMessageInsert(row)

SpecRm == Init /\ [][NextRm]_vars

\* Histories the backend may hold when the service starts.
Msg(id, author, content) ==
    [id |-> id, author |-> author, content |-> content, system |-> FALSE]
SysMsg(id, author) ==
    [id |-> id, author |-> author, content |-> "pin", system |-> TRUE]
HistoriesRe ==
    { [c \in Channels |-> IF c = "c12" THEN h12 ELSE h1p] :
        h12 \in { <<>>, <<Msg(1, "u2", "hi")>>,
                  <<Msg(1, "u2", ""), SysMsg(2, "u2"), Msg(4, "u2", "hi")>>,
                  <<Msg(1, "u1", "hi"), Msg(2, "u2", "")>>,
                  <<Msg(1, "u2", "hi"), Msg(2, "u1", "hi")>> },
        h1p \in { <<>>, <<Msg(3, "p1", "hi")>> } }

\* The service manages account a1 alone; its client has just emitted 'ready'
\* and the backend holds a history that no longer changes.
InitRe ==
    /\ accounts = {"a1"}
    /\ subscribed = TRUE
    /\ feed = <<>>
    /\ changes = 0
    /\ initPc = "done"
    /\ initList = <<"a1">>
    /\ initIdx = 2
    /\ initResult = [a \in Accounts |-> IF a = "a1" THEN "ok" ELSE "none"]
    /\ sessions = << [acct |-> "a1", state |-> "ready", caller |-> "init"] >>
    /\ bots = [a \in Accounts |-> IF a = "a1" THEN 1 ELSE 0]
    /\ lastOp = Op("addBot", "a1", "added")
    /\ imports = [s \in 1..MaxSessions |-> IF s = 1 THEN ImportStart("a1") ELSE ImportIdle]
    /\ history \in HistoriesRe
    /\ inbox = [s \in 1..MaxSessions |-> <<>>]
    /\ pending = {}
    /\ store = <<>>
    /\ sends = <<>>
    /\ status = NoStatus
    /\ deleteSeen = {}
    /\ exited = FALSE
    /\ raised = {}
    /\ stopped = {}
    /\ messages = <<>>
    /\ chatSeen = {}
    /\ chatDone = {}
    /\ guildCache = {}
    /\ clock = 0
    /\ guildLog = NoRequest

NextRe ==
    \/ \E s \in 1..MaxSessions : ImportFetch(s)
    \/ \E s \in 1..MaxSessions : ImportFetchError(s)
    \/ \E s \in 1..MaxSessions : ImportCheck(s)
    \/ \E s \in 1..MaxSessions : ImportInsert(s)
    \/ \E a \in Accounts : Restart(a)
    \/ \E s \in 1..MaxSessions : ReadyEmitted(s)

SpecRe == InitRe /\ [][NextRe]_vars

\* ------------------------------------------------------- the send path alone
\* Calls of /send-message on the service of InitMsg, with the draws of
\* Math.random followed more closely.
NextSend ==
    \/ \E a \in Accounts : \E u \in Peers(a) : ManagerSendMessage(a, u, "hello")
    \/ \E i \in 1..MaxSends : \E rnd \in Draws : SendResolve(i, rnd)
    \/ \E i \in 1..MaxSends : SendPost(i)
    \/ \E i \in 1..MaxSends : SendPostError(i)
    \/ \E i \in 1..MaxSends : SendRecord(i)

SpecSend == InitMsg /\ [][NextSend]_vars

\* ------------------------------------------------- the dashboard's ChatView
\* The operator has the conversation of ChatAccount with ChatUser open and
\* sends through it, while the peer writes too.
NextChat ==
    \/ ManagerSendMessage(ChatAccount, ChatUser, "hello")
    \/ \E i \in 1..MaxSends : \E rnd \in DrawsMsg : SendResolve(i, rnd)
    \/ \E i \in 1..MaxSends : SendPost(i)
    \/ \E i \in 1..MaxSends : SendPostError(i)
    \/ \E i \in 1..MaxSends : SendRecord(i)
    \/ \E i \in 1..MaxSends : ChatOptimistic(i)
    \/ \E j \in DOMAIN store : ChatRealtime(j)
    \/ \E c \in Channels, u \in Users, k \in PostKinds : EnvPost(c, u, k)
    \/ \E s \in 1..MaxSessions : HandleMessageCreate(s)
    \/ \E row \in pending : RecordMessageInsert(row)

SpecChat == InitMsg /\ [][NextChat]_vars

\* ------------------------------------------------------- the guild cache
\* Caches earlier refreshes have left: rows of a1 written 22 hours ago and
\* just now, and a row of a2.
InitialCaches ==
    SUBSET {CacheEntry("a1", "g1", 2), CacheEntry("a1", "g2", CacheTtl),
            CacheEntry("a2", "g1", CacheTtl)}

InitGuilds ==
    /\ accounts = Accounts
    /\ subscribed = TRUE
    /\ feed = <<>>
    /\ changes = 0
    /\ initPc = "done"
    /\ initList = <<"a1", "a2">>
    /\ initIdx = 3
    /\ initResult = [a \in Accounts |-> "ok"]
    /\ sessions = << [acct |-> "a1", state |-> "ready", caller |-> "init"],
                     [acct |-> "a2", state |-> "ready", caller |-> "init"] >>
    /\ bots = [a \in Accounts |-> IF a = "a1" THEN 1 ELSE 2]
    /\ lastOp = Op("addBot", "a2", "added")
    /\ imports = [s \in 1..MaxSessions |->
                    IF s \in {1, 2} THEN ImportStart(IF s = 1 THEN "a1" ELSE "a2")
                    ELSE ImportIdle]
    /\ history = [c \in Channels |-> <<>>]
    /\ inbox = [s \in 1..MaxSessions |-> <<>>]
    /\ pending = {}
    /\ store = <<>>
    /\ sends = <<>>
    /\ status = NoStatus
    /\ deleteSeen = {}
    /\ exited = FALSE
    /\ raised = {}
    /\ stopped = {}
    /\ messages = <<>>
    /\ chatSeen = {}
    /\ chatDone = {}
    /\ guildCache \in InitialCaches
    /\ clock = 0
    /\ guildLog = NoRequest

NextGuilds ==
    \/ \E a \in GuildRequestIds, l \in QueryOutcomes, q \in QueryOutcomes :
          GuildsGetCached(a, l, q)
    \/ \E a \in GuildRequestIds, l \in QueryOutcomes, d \in DiscordOutcomes,
          got \in SUBSET Guilds, del \in QueryOutcomes, ins \in QueryOutcomes :
          GuildsGetForce(a, l, d, got, del, ins)
    \/ Tick
    \/ \E a \in Accounts : EnvDeleteAccount(a)

SpecGuilds == InitGuilds /\ [][NextGuilds]_vars

\* ------------------------------------------------ a burst of live events
\* Two messages have just been written to account a1 and both messageCreate
\* events wait at its session, in the order the backend sent them.
HistoriesOrd ==
    { [c \in Channels |-> IF c = "c12" THEN <<Msg(1, "u2", "hi"), Msg(2, "u2", "hi")>>
                          ELSE <<>>],
      [c \in Channels |-> IF c = "c12" THEN <<Msg(1, "u2", "hi")>>
                          ELSE <<Msg(2, "p1", "hi")>>],
      [c \in Channels |-> IF c = "c12" THEN <<Msg(2, "u2", "hi")>>
                          ELSE <<Msg(1, "p1", "hi")>>] }

\* The events of the messages of h, oldest message first.
EventsOf(h) ==
    LET evs == {[chan |-> c, msg |-> m] :
                   c \in Channels, m \in Range(h["c12"]) \cup Range(h["c1p"])}
        ev(n) == CHOOSE e \in evs : e.msg.id = n /\ e.msg \in Range(h[e.chan])
    IN <<ev(1), ev(2)>>

InitOrd ==
    /\ accounts = {"a1"}
    /\ subscribed = TRUE
    /\ feed = <<>>
    /\ changes = 0
    /\ initPc = "done"
    /\ initList = <<"a1">>
    /\ initIdx = 2
    /\ initResult = [a \in Accounts |-> IF a = "a1" THEN "ok" ELSE "none"]
    /\ sessions = << [acct |-> "a1", state |-> "ready", caller |-> "init"] >>
    /\ bots = [a \in Accounts |-> IF a = "a1" THEN 1 ELSE 0]
    /\ lastOp = Op("addBot", "a1", "added")
    /\ imports = [s \in 1..MaxSessions |-> IF s = 1 THEN ImportStart("a1") ELSE ImportIdle]
    /\ history \in HistoriesOrd
    /\ inbox = [s \in 1..MaxSessions |-> IF s = 1 THEN EventsOf(history) ELSE <<>>]
    /\ pending = {}
    /\ store = <<>>
    /\ sends = <<>>
    /\ status = NoStatus
    /\ deleteSeen = {}
    /\ exited = FALSE
    /\ raised = {}
    /\ stopped = {}
    /\ messages = <<>>
    /\ chatSeen = {}
    /\ chatDone = {}
    /\ guildCache = {}
    /\ clock = 0
    /\ guildLog = NoRequest

NextOrd ==
    \/ \E s \in 1..MaxSessions : HandleMessageCreate(s)
    \/ \E row \in pending : RecordMessageInsert(row)
    \/ \E s \in 1..MaxSessions : ImportFetch(s)
    \/ \E s \in 1..MaxSessions : ImportFetchError(s)
    \/ \E s \in 1..MaxSessions : ImportCheck(s)
    \/ \E s \in 1..MaxSessions : ImportInsert(s)

SpecOrd == InitOrd /\ [][NextOrd]_vars

\* ------------------------------------------------------------------ claims
\* C3: in every reachable state at most one live (started, not stopped)
\* session exists per account, whatever the interleaving of the addBot calls
\* of initializeFromDatabase and of the INSERT handler.
C3_AtMostOneLiveSession ==
    \A a \in Accounts : Cardinality(LiveSessions(a)) <= 1

\* C4: addBot for an account that is already registered returns normally,
\* constructs and starts no session and leaves the registry unchanged, both
\* when the INSERT handler calls it and when the init loop does.
C4_AddBotIdempotent ==
    [][ /\ ( /\ feed # <<>>
             /\ Head(feed).ev = "INSERT"
             /\ bots[Head(feed).id] # 0
             /\ feed' = Tail(feed) )
            => /\ sessions' = sessions
               /\ bots' = bots
               /\ lastOp' = Op("addBot", Head(feed).id, "exists")
        /\ ( /\ initPc = "loop"
             /\ bots[initList[initIdx]] # 0
             /\ (initPc' # "loop" \/ initIdx' # initIdx) )
            => /\ sessions' = sessions
               /\ bots' = bots
               /\ lastOp' = Op("addBot", initList[initIdx], "exists") ]_vars

\* C4 witness: a second addBot for a registered account has returned and the
\* account has exactly one live session.
C4_Witness ==
    \E a \in Accounts :
        /\ lastOp = Op("addBot", a, "exists")
        /\ bots[a] # 0
        /\ Cardinality(LiveSessions(a)) = 1
        /\ Cardinality({s \in DOMAIN sessions : sessions[s].acct = a}) = 1

\* C5: removeBot on a registered account stops that session and removes
\* exactly that mapping, every other session and mapping staying as it was;
\* on an unregistered account it returns normally and changes nothing.
C5_RemoveBotFrame ==
    [][ \A a \in Accounts :
          ( /\ feed # <<>>
            /\ Head(feed) = [ev |-> "DELETE", id |-> a]
            /\ feed' = Tail(feed) )
          => IF bots[a] # 0
             THEN /\ Len(sessions') = Len(sessions)
                  /\ sessions'[bots[a]].state = "destroyed"
                  /\ \A s \in DOMAIN sessions : s # bots[a] => sessions'[s] = sessions[s]
                  /\ bots'[a] = 0
                  /\ \A b \in Accounts : b # a => bots'[b] = bots[b]
                  /\ lastOp' = Op("removeBot", a, "removed")
             ELSE /\ sessions' = sessions
                  /\ bots' = bots
                  /\ lastOp' = Op("removeBot", a, "absent") ]_vars

\* C5 witness: removeBot has removed a registered account while another
\* account is registered.
C5_Witness ==
    \E a, b \in Accounts :
        /\ a # b
        /\ lastOp = Op("removeBot", a, "removed")
        /\ bots[a] = 0
        /\ bots[b] # 0
        /\ Live(bots[b])
        /\ \E s \in DOMAIN sessions :
              sessions[s].acct = a /\ sessions[s].state = "destroyed"

\* C7: when start() fails inside addBot the error reaches the caller, the
\* call registers nothing (the failed session is never in the registry), no
\* further session is constructed by way of retry, and every registered
\* session stays registered and unchanged.
C7_StartFailureNotRegistered ==
    /\ [][ \A s \in DOMAIN sessions :
             (sessions[s].state = "connecting" /\ sessions'[s].state = "failed")
             => /\ bots' = bots
                /\ bots'[sessions[s].acct] # s
                /\ Len(sessions') = Len(sessions)
                /\ \A t \in DOMAIN sessions : t # s => sessions'[t] = sessions[t]
                /\ lastOp' = Op("addBot", sessions[s].acct, "threw") ]_vars
    /\ [](\A a \in Accounts : bots[a] # 0 => sessions[bots[a]].state # "failed")

\* C7 witness: an addBot has thrown for one account, which is not registered,
\* while another account is registered with a live session.
C7_Witness ==
    \E a, b \in Accounts :
        /\ a # b
        /\ lastOp = Op("addBot", a, "threw")
        /\ bots[a] = 0
        /\ bots[b] # 0
        /\ Live(bots[b])

\* C8: a start failure for one loaded account does not stop the init loop:
\* once initializeFromDatabase is done addBot has been attempted for every
\* loaded account, and a loaded account whose start succeeds is registered
\* at that moment.
C8_InitPartialFailure ==
    /\ [](initPc = "done" =>
            \A i \in DOMAIN initList : initResult[initList[i]] # "none")
    /\ [][ \A s \in DOMAIN sessions :
             ( /\ sessions[s].caller = "init"
               /\ sessions[s].state = "connecting"
               /\ sessions'[s].state = "ready" )
             => /\ bots'[sessions[s].acct] = s
                /\ initResult'[sessions[s].acct] = "ok" ]_vars

\* C8 witness: the loop is done, the first loaded account failed to start and
\* a later one was started and is registered.
C8_Witness ==
    /\ initPc = "done"
    /\ Len(initList) = 2
    /\ initResult[initList[1]] = "failed"
    /\ initResult[initList[2]] = "ok"
    /\ bots[initList[2]] # 0
    /\ Live(bots[initList[2]])

\* The backend's message with id n, and the rows stored for it.
AllMsgs == Range(history["c12"]) \cup Range(history["c1p"])
MsgById(n) == CHOOSE m \in AllMsgs : m.id = n
RowsOf(a, n) ==
    {i \in DOMAIN store :
        store[i].account_id = a /\ store[i].discord_message_id = n}

\* C1: in every reachable state the store holds at most one Message per
\* (account_id, remote_message_id), however often and by whichever of the
\* live path, the history import and the send path the message is delivered.
C1_OneRowPerMessage ==
    \A i, j \in DOMAIN store :
        ( /\ store[i].account_id = store[j].account_id
          /\ store[i].discord_message_id = store[j].discord_message_id ) => i = j

\* C1 witness: a sent message was stored by the history import and was then
\* delivered again by the send path (recordSentMessage has been answered):
\* exactly one row is stored for it.
C1_Witness ==
    \E k \in DOMAIN sends :
        /\ sends[k].result = "success"
        /\ Cardinality(RowsOf(sends[k].acct, sends[k].msg)) = 1
        /\ \A i \in RowsOf(sends[k].acct, sends[k].msg) : store[i].via = "import"

\* C2: whenever BotManager.sendMessage has returned successfully with
\* messageId m, the store contains a Message of that account to that peer,
\* direction sent, with the echoed content and remote_message_id m.
C2_SuccessfulSendPersisted ==
    \A k \in DOMAIN sends :
        sends[k].result = "success" =>
            \E i \in DOMAIN store :
                /\ store[i].account_id = sends[k].acct
                /\ store[i].discord_user_id = sends[k].peer
                /\ store[i].direction = "sent"
                /\ store[i].content = sends[k].content
                /\ store[i].discord_message_id = sends[k].msg

\* C6: sendMessage for an account with no registered session fails with the
\* not-found error and makes no backend request (no user fetch, no channel
\* creation, no send) and no storage insert.
C6_SendNotFound ==
    /\ [](\A k \in DOMAIN sends :
            sends[k].sess = 0 =>
                /\ sends[k].result = "NotFound"
                /\ sends[k].pc = "done"
                /\ sends[k].reqs = {}
                /\ sends[k].msg = 0)
    /\ [][ (Len(sends') = Len(sends) + 1 /\ bots[sends'[Len(sends')].acct] = 0)
           => /\ history' = history
              /\ store' = store
              /\ pending' = pending ]_vars

\* C6 witness: a sendMessage for the unregistered account a2 has failed.
C6_Witness ==
    /\ bots["a2"] = 0
    /\ \E k \in DOMAIN sends :
        sends[k].acct = "a2" /\ sends[k].result = "NotFound" /\ sends[k].reqs = {}

\* C9: every Message stored by the live path or by the history import has
\* direction sent exactly when the author of the message is the session's
\* own user, and received otherwise.
C9_DirectionByAuthor ==
    \A i \in DOMAIN store :
        store[i].via \in {"live", "import"} =>
            /\ store[i].direction \in {"sent", "received"}
            /\ store[i].direction = "sent"
                 <=> MsgById(store[i].discord_message_id).author
                       = SelfId(store[i].account_id)

\* C9 witness: the import has stored a message of the account's own user and
\* the live path has stored a message of somebody else.
C9_Witness ==
    \E i, j \in DOMAIN store :
        /\ store[i].via = "import"
        /\ MsgById(store[i].discord_message_id).author = SelfId(store[i].account_id)
        /\ store[i].direction = "sent"
        /\ store[j].via = "live"
        /\ MsgById(store[j].discord_message_id).author # SelfId(store[j].account_id)
        /\ store[j].direction = "received"

\* C10: of any two messages of one conversation that one run of the history
\* import stored, the older was inserted before the newer.
C10_ImportOldestFirst ==
    \A i, j \in DOMAIN store :
        ( /\ i < j
          /\ store[i].via = "import"
          /\ store[j].via = "import"
          /\ store[i].by = store[j].by
          /\ store[i].discord_user_id = store[j].discord_user_id )
        => store[i].timestamp < store[j].timestamp

\* C10 witness: one run of the import has stored two messages of one
\* conversation.
C10_Witness ==
    \E i, j \in DOMAIN store :
        /\ i < j
        /\ store[i].via = "import"
        /\ store[j].via = "import"
        /\ store[i].by = store[j].by
        /\ store[i].discord_user_id = store[j].discord_user_id

\* C11: when a ready session of account a gets a direct-message event of a
\* peer p (not the account's own user) with id m and content c that is not
\* yet stored for a, exactly one Message {a, p, received, c, m} is stored.
\* Stated of the step that answers the handler's insert; an insert lost to
\* a failure of the store itself (nothing stored although no stored row has
\* the id) is not held against the claim.
C11_LiveEventStored ==
    [][ \A row \in pending :
          ( /\ row \notin pending'
            /\ row.direction = "received"
            /\ RowsOf(row.account_id, row.discord_message_id) = {}
            /\ (UniqueViolation(row) \/ store' # store) )
          => Cardinality({i \in DOMAIN store' :
                 /\ store'[i].account_id = row.account_id
                 /\ store'[i].discord_message_id = row.discord_message_id
                 /\ store'[i].discord_user_id = row.discord_user_id
                 /\ store'[i].direction = "received"
                 /\ store'[i].content = row.content}) = 1 ]_vars

\* What the caller of /send-message can get for a send that failed for
\* another reason than rate limiting.
OtherFailures ==
    {Surfaced(ErrorMessage(st, tx)) : st \in Statuses \ {RateLimitStatus}, tx \in Texts}
      \cup {Surfaced(NetworkError), Surfaced(ResolveError)}
      \cup {Surfaced(NotFoundError(a)) : a \in Accounts}

RegisteredSessions == {s \in DOMAIN sessions : \E a \in Accounts : bots[a] = s}

\* C13: every answer of getBotStatus / GET /health reports as activeBots
\* exactly the account ids registered when it is taken and as totalBots the
\* number of registered sessions, so that totalBots = |activeBots|.
C13_StatusSnapshot ==
    [][ status'.n # status.n =>
          /\ status'.activeBots = {a \in Accounts : bots[a] # 0}
          /\ status'.totalBots = Cardinality(RegisteredSessions)
          /\ status'.totalBots = Cardinality(status'.activeBots) ]_vars

\* C13 witness: a snapshot taken after two sessions were added and one of
\* them removed reports the one account left.
C13_Witness ==
    /\ status.n > 0
    /\ status.totalBots = 1
    /\ status.activeBots = RegisteredKeys
    /\ \E s \in DOMAIN sessions : sessions[s].state = "destroyed"
    /\ \E s \in DOMAIN sessions : sessions[s].state = "failed" \/ sessions[s].state = "ready"
    /\ ~exited

\* Every handler has completed: no notification waits, the initial load is
\* over and no addBot awaits start().
Quiescent ==
    /\ feed = <<>>
    /\ initPc = "done"
    /\ \A s \in DOMAIN sessions : sessions[s].state # "connecting"

\* C14: once all handlers have completed, no session that an INSERT
\* notification added is registered for an account that has been deleted and
\* whose DELETE notification was handled.
C14_RegistrySynchronized ==
    Quiescent =>
        \A a \in deleteSeen :
            a \notin accounts => (bots[a] = 0 \/ sessions[bots[a]].caller # "feed")

\* C16: the step that ends the process on SIGINT leaves every session that
\* was registered when the signal arrived stopped, and the registry empty.
C16_ShutdownStopsAll ==
    [][ (exited' /\ ~exited) =>
          /\ \A s \in RegisteredSessions : sessions'[s].state = "destroyed"
          /\ \A a \in Accounts : bots'[a] = 0 ]_vars

\* C16 witness: the process has exited and the two sessions that were
\* registered, neither of which was ever removed before, are stopped.
C16_Witness ==
    /\ exited
    /\ changes = 0
    /\ Cardinality({s \in DOMAIN sessions : sessions[s].state = "destroyed"}) = 2
    /\ \A a \in Accounts : bots[a] = 0

\* C15: each messageCreate event a ready session handles is handed to the
\* store for recording, as received when the peer wrote the message and as
\* sent when the account itself wrote it from another client (messages that
\* sendMessage posted are left aside: the send path records those).
C15_LiveStreamRecordsAll ==
    [][ \A s \in DOMAIN sessions :
          ( /\ inbox[s] # <<>>
            /\ inbox'[s] = Tail(inbox[s])
            /\ \A i \in DOMAIN sends : sends[i].msg # Head(inbox[s]).msg.id )
          => LET ev == Head(inbox[s])
                 self == SelfId(sessions[s].acct)
             IN \E row \in pending' :
                 /\ row.account_id = sessions[s].acct
                 /\ row.discord_message_id = ev.msg.id
                 /\ row.direction = IF ev.msg.author = self THEN "sent" ELSE "received" ]_vars

\* C17: an insert refused for a uniqueness violation is never raised or
\* reported as an error, on the live path, the send path or the import.
C17_DuplicateNotAnError == raised = {}

\* C18: the import passes over a message only if a row with the same
\* account_id and the same discord_message_id is stored; a message stored
\* only under another account goes on to be inserted for this account.
C18_DedupePerAccount ==
    [][ \A s \in DOMAIN sessions :
          ( /\ imports[s].pc = "check"
            /\ imports'[s] # imports[s]
            /\ RowsOf(sessions[s].acct, Head(imports[s].page).id) = {} )
          => imports'[s].pc = "insert" ]_vars

\* C19: in the history import, the step at which the fetch of a conversation
\* fails touches no stored row and leads to the fetch of the next
\* conversation, or to the normal end of the import when it was the last.
C19_FetchFailureContained ==
    [][ \A s \in DOMAIN sessions :
          imports'[s].failed # imports[s].failed =>
              LET rest == Tail(imports[s].chans) IN
              /\ imports'[s].failed = imports[s].failed \cup {Head(imports[s].chans)}
              /\ imports'[s].chans = rest
              /\ imports'[s].pc = IF rest = <<>> THEN "done" ELSE "fetch"
              /\ store' = store ]_vars

\* C19 witness: an import whose fetch of c12 failed has completed and has
\* stored the eligible message of the conversation after it, c1p.
C19_Witness ==
    \E s \in DOMAIN sessions :
        /\ imports[s].pc = "done"
        /\ imports[s].failed = {"c12"}
        /\ \E i \in DOMAIN store :
            /\ store[i].via = "import"
            /\ store[i].by = s
            /\ \E m \in Range(history["c1p"]) : m.id = store[i].discord_message_id

\* The imports that run anew for an account that had a session before.
Rerun(s) == \E s0 \in 1..(s - 1) : sessions[s0].acct = sessions[s].acct

\* The messages of the account's channels that the import does not pass over.
Eligible(a) ==
    {m \in AllMsgs : Kept(m) /\ \E i \in 1..Len(DmChannelSeq(a)) :
                                    m \in Range(history[DmChannelSeq(a)[i]])}

\* C20 as stated: once the first import of an account has completed, an
\* import run again over the same history inserts no row.
C20_RerunInsertsNothing ==
    imports[1].pc = "done" =>
        \A i \in DOMAIN store : ~Rerun(store[i].by)

\* C20 as amended: an import never stores a second row for a message that has
\* a row; it only appends a row for a message that has none, so a re-run over
\* a history whose eligible messages are all stored leaves the store as it is.
C20_RerunNoDuplicates ==
    [][ store' # store =>
          /\ Len(store') = Len(store) + 1
          /\ SubSeq(store', 1, Len(store)) = store
          /\ \A i \in DOMAIN store :
                store[i].discord_message_id # store'[Len(store')].discord_message_id
          /\ \E m \in Eligible(store'[Len(store')].account_id) :
                m.id = store'[Len(store')].discord_message_id ]_vars

\* C20 witness: the first import stored both eligible messages; the import
\* run again after a restart has completed and stored nothing.
C20_Witness ==
    /\ Len(sessions) > 1
    /\ imports[1].pc = "done"
    /\ imports[2].pc = "done"
    /\ imports[2].failed = {}
    /\ Len(store) = 2
    /\ \A i \in DOMAIN store : store[i].by = 1
    /\ \A m \in Eligible("a1") : RowsOf("a1", m.id) # {}

\* C21: no row that fetchExistingDMs stored has empty content or comes from
\* a system message.
C21_ImportSkipsEmptyAndSystem ==
    \A i \in DOMAIN store :
        store[i].via = "import" =>
            /\ store[i].content # ""
            /\ ~MsgById(store[i].discord_message_id).system

\* C21 witness: an import has gone through a conversation that holds an empty
\* message, a system message and a text; only the text has a row.
C21_Witness ==
    /\ imports[1].pc = "done"
    /\ imports[1].failed = {}
    /\ \E m \in Range(history["c12"]) : m.content = ""
    /\ \E m \in Range(history["c12"]) : m.system
    /\ \E i \in DOMAIN store : store[i].via = "import" /\ store[i].discord_message_id = 4
    /\ \A m \in Range(history["c12"]) : Skipped(m) => RowsOf("a1", m.id) = {}

\* The import of session s is at its very beginning.
ImportAtStart(imp, s) ==
    /\ s \in DOMAIN sessions'
    /\ imp = ImportStart(sessions'[s].acct)

\* C22: fetchExistingDMs is started for a session only when that session is
\* ready, and only if it was never started for that session before; a
\* session whose import is under way or over is or was ready.
C22_ImportStartsOnceWhenReady ==
    [][ \A s \in 1..MaxSessions :
          /\ (imports'[s] # imports[s] /\ ImportAtStart(imports'[s], s))
                => /\ sessions'[s].state = "ready"
                   /\ imports[s].pc = "idle"
          /\ imports'[s].pc # "idle"
                => /\ s \in DOMAIN sessions'
                   /\ sessions'[s].state \in {"ready", "destroyed"} ]_vars

\* C22 witness: a session that became ready after a restart has started its
\* import once and taken it to the end, and 'ready' handlers of the earlier
\* session have run too.
C22_Witness ==
    /\ Len(sessions) = 2
    /\ sessions[2].state = "ready"
    /\ imports[2].pc = "done"
    /\ imports[1].pc = "done"
    /\ store # <<>>

\* C23: a call of sendMessage issues at most one POST to the backend; when
\* that POST fails or is answered not OK the call is over, its error is what
\* the caller gets, and no row is stored for the call: its session has stored
\* no more sent rows than it has calls whose POST created a message.
C23_NoRetryNoRow ==
    \A k \in DOMAIN sends :
        /\ sends[k].posts <= 1
        /\ sends[k].cause.kind \in {"http", "network"} =>
              /\ sends[k].pc = "done"
              /\ sends[k].result = "error"
              /\ sends[k].response.error # <<>>
              /\ sends[k].msg = 0
              /\ Cardinality({i \in DOMAIN store :
                      store[i].via = "send" /\ store[i].by = sends[k].sess})
                    <= Cardinality({j \in DOMAIN sends :
                          sends[j].sess = sends[k].sess /\ sends[j].msg # 0})

\* C23 witness: a call whose one POST met a network error has ended in that
\* error.
C23_Witness ==
    \E k \in DOMAIN sends :
        /\ sends[k].cause = Cause("network", 0)
        /\ sends[k].posts = 1
        /\ sends[k].pc = "done"
        /\ sends[k].response = Surfaced(NetworkError)
        /\ store = <<>>

\* C24: once removeBot(a) has completed, no session object of a that existed
\* by then hands a message that arrives afterwards to recordMessage.
C24_NoEventsAfterRemove ==
    [][ \A r \in stopped :
          ~ ( /\ inbox[r.sess] # <<>>
              /\ inbox'[r.sess] = Tail(inbox[r.sess])
              /\ Head(inbox[r.sess]).msg.id > r.after
              /\ pending' # pending ) ]_vars

\* C25: the rows that the live stream of one session stores are stored in
\* the order in which their events arrived, which is the order of the ids.
C25_LiveInsertsInArrivalOrder ==
    \A i, j \in DOMAIN store :
        ( /\ i < j
          /\ store[i].via = "live"
          /\ store[j].via = "live"
          /\ store[i].by = store[j].by )
        => store[i].discord_message_id < store[j].discord_message_id

\* The rows of account a, in the order stored.
MessagesOf(st, a) == SelectSeq(st, LAMBDA row : row.account_id = a)

\* C26: no step changes or removes a stored row of an account, except the
\* deletion of that account itself: the rows an account had are still its
\* first rows, unchanged, after every other step.
C26_RowsOnlyAdded ==
    [][ \A a \in Accounts :
          (a \in accounts' \/ a \notin accounts) =>
              /\ Len(MessagesOf(store', a)) >= Len(MessagesOf(store, a))
              /\ SubSeq(MessagesOf(store', a), 1, Len(MessagesOf(store, a)))
                    = MessagesOf(store, a) ]_vars

\* C26 witness: one account has been deleted and its DELETE handled while a
\* row of the other account is still stored.
C26_Witness ==
    /\ store # <<>>
    /\ \E a \in deleteSeen : a \notin accounts
    /\ \A i \in DOMAIN store : store[i].account_id \in accounts

\* C27: when the insert of a live event fails for another reason than the
\* unique constraint, only that insert is lost: it is not issued again, no
\* stored row is touched, and the session and the events waiting at it are
\* as before, so that the session goes on handling them.
C27_LiveInsertFailureContained ==
    [][ \A row \in pending :
          ( /\ row \notin pending'
            /\ ~UniqueViolation(row)
            /\ row \notin Range(store') )
          => /\ store' = store
             /\ pending' = pending \ {row}
             /\ sessions' = sessions
             /\ sessions'[row.by].state = "ready"
             /\ inbox' = inbox ]_vars

\* C27 witness: the insert of the first of two events failed; the session
\* has handled the second one and its row is stored.
C27_Witness ==
    /\ inbox[1] = <<>>
    /\ pending = {}
    /\ RowsOf("a1", 1) = {}
    /\ \E i \in DOMAIN store :
          store[i].via = "live" /\ store[i].by = 1 /\ store[i].discord_message_id = 2
    /\ sessions[1].state = "ready"

\* The characters a decimal digit can be.
DecimalDigits == 0..9

\* C28: every call that issued its POST carries a nonce of exactly
\* NonceLength characters, each a decimal digit, made within that call; a
\* call that ended before DiscordCRMBot.sendMessage has none.
C28_NonceNineteenDigits ==
    \A k \in DOMAIN sends :
        /\ sends[k].posts > 0 \/ sends[k].pc = "post" =>
              /\ Len(sends[k].nonce) = 19
              /\ \A i \in DOMAIN sends[k].nonce : sends[k].nonce[i] \in DecimalDigits
        /\ sends[k].chan = "-" => sends[k].nonce = <<>>

\* C28 witness: a POST was issued with a nonce that holds the largest and
\* the smallest character the generator gives.
C28_Witness ==
    \E k \in DOMAIN sends :
        /\ sends[k].posts = 1
        /\ Len(sends[k].nonce) = 19
        /\ \E i \in DOMAIN sends[k].nonce : sends[k].nonce[i] = 9
        /\ \E i \in DOMAIN sends[k].nonce : sends[k].nonce[i] = 1

\* The entries of the list that show the message of call i: the entry made
\* from the answer of the call and the entries made from its stored row.
ShownFor(i) ==
    {k \in DOMAIN messages :
        \/ messages[k].id = Id("snowflake", sends[i].msg)
        \/ \E j \in DOMAIN store :
              /\ store[j].discord_message_id = sends[i].msg
              /\ messages[k].id = RowUuid(j)}

\* C29: once ChatView has both made its optimistic update for a successful
\* send and handled the INSERT notification of the row of that message, in
\* whichever order, the list shows the message exactly once.
C29_SentMessageListedOnce ==
    \A i \in chatDone :
        ( /\ sends[i].result = "success"
          /\ \E j \in chatSeen : store[j].discord_message_id = sends[i].msg )
        => Cardinality(ShownFor(i)) = 1

\* A step that answers a request made without force=true.
CachedAnswered == guildLog'.n # guildLog.n /\ ~guildLog'.force

\* The rows of guild_cache of the requested account that expire later than
\* the current time.
ValidEntries ==
    {e \in guildCache : e.account_id = guildLog'.acct /\ e.expires_at > clock}

\* C30 as stated: a request without force=true makes no request to
\* discord.com and leaves guild_cache as it is, and a 200 answer carries the
\* unexpired rows of the account, with from_cache = true exactly when there is
\* at least one such row and an empty guild list otherwise.
C30_CachedAnswerMatchesCache ==
    [][CachedAnswered =>
          /\ guildLog'.discord = 0
          /\ guildCache' = guildCache
          /\ guildLog'.guilds \subseteq ValidEntries
          /\ guildLog'.code = 200 =>
                /\ guildLog'.from_cache = (ValidEntries # {})
                /\ ~guildLog'.from_cache => guildLog'.guilds = {}]_vars

\* C30, amended: a request without force=true makes no request to discord.com
\* and leaves guild_cache as it is; every guild it returns is an unexpired
\* row of the requested account; when its cache query succeeded it returns
\* all of them, with from_cache = true exactly when there is at least one;
\* when the cache query failed, or the account was not found, it returns no
\* guild and from_cache is not true.
C30_CachedAnswerFromQuery ==
    [][CachedAnswered =>
          /\ guildLog'.discord = 0
          /\ guildCache' = guildCache
          /\ guildLog'.guilds \subseteq ValidEntries
          /\ guildLog'.from_cache = (guildLog'.guilds # {})
          /\ guildLog'.queried = "ok" => guildLog'.guilds = ValidEntries
          /\ guildLog'.queried # "ok" => guildLog'.guilds = {}]_vars

\* A request without force=true was answered from a cache that also holds an
\* expired row of the account and a row of another account.
C30_Witness ==
    /\ guildLog.n > 0
    /\ ~guildLog.force
    /\ guildLog.from_cache
    /\ guildLog.guilds # {}
    /\ \E e \in guildCache : e.account_id = guildLog.acct /\ e.expires_at <= clock
    /\ \E e \in guildCache : e.account_id # guildLog.acct

====
